---- MODULE Spec2Model ----
(***************************************************************************)
(* The fanout partition writer of icelake                                  *)
(* (icelake/src/io_v2/functional_writer/partition_writer.rs) and its       *)
(* prometheus decorator, as a state machine.  Two decorated writers built  *)
(* from clones of one FanoutPartitionedWriterWithMetricsBuilder share one  *)
(* gauge.  Every action is one whole call of write or flush on one of the  *)
(* writers (the callers await each call, so calls do not interleave).      *)
(***************************************************************************)
EXTENDS Integers, Sequences, FiniteSets, TLC

\* ------------------------------------------------------------------ bounds

\* Rows that the callers feed to the writers in one behaviour of Spec
\* (two-column schema) and of SpecDelta (three-column schema).
MaxRows == 3
MaxDeltaRows == 2

\* --------------------------------------------------------- values and rows

\* writer_1 and writer_2 of test_metrics_writer
Writers == {"writer_1", "writer_2"}

\* A cell no transform can be applied to (TransformError).
Malformed == 0

\* The values of a column.
Values == {1, 2}

Option_None == <<>>
Some(v) == <<v>>

\* The values the callers put in column c of a batch of n columns: column 1
\* is the partition source of the tests and may hold a malformed cell; the
\* two-column batches vary column 1 only, the three-column batches every
\* column.
ColumnValues(n, c) ==
    IF c = 1 THEN Values \cup {Malformed}
    ELSE IF n = 2 THEN {1} ELSE Values

\* The rows of a batch of n columns.
Rows(n) == {r \in [1..n -> Values \cup {Malformed}] : \A c \in 1..n : r[c] \in ColumnValues(n, c)}

\* A RecordBatch, row-wise: the sequences of at most n rows.
Batches(ncols, n) == UNION {[1..m -> Rows(ncols)] : m \in 0..n}

\* The orders a HashMap may iterate the keys S in.
Orders(S) ==
    {o \in [1..Cardinality(S) -> S] : \A i, j \in DOMAIN o : i # j => o[i] # o[j]}

EmptyMap == [k \in {} |-> 0]

\* ------------------------------------------------------- partition splitter

\* create_partition(): one identity field over col1.
create_partition ==
    <<[source_column_id |-> 1, transform |-> [kind |-> "identity", width |-> 0],
       name |-> "col1"]>>

\* Other partition specs a builder may be given.
TruncateSpec ==
    <<[source_column_id |-> 1, transform |-> [kind |-> "truncate", width |-> 4],
       name |-> "col1_trunc"]>>

TwoFieldSpec ==
    <<[source_column_id |-> 2, transform |-> [kind |-> "identity", width |-> 0],
       name |-> "col2"],
      [source_column_id |-> 1, transform |-> [kind |-> "truncate", width |-> 2],
       name |-> "col1_trunc"]>>

\* Whether the transform can be applied to the cell.
TransformOk(transform, v) == v # Malformed

\* A transform: a pure function from a source cell to a partition value.
Transform(transform, v) ==
    IF transform.kind = "identity" THEN v ELSE v - (v % transform.width)

\* The PartitionKey of a row: the transformed values, in spec field order.
RowKey(spec, row) ==
    [i \in 1..Len(spec) |-> Transform(spec[i].transform, row[spec[i].source_column_id])]

\* The row indices of each key, by one pass over the rows.
RECURSIVE GroupRows(_, _, _, _)
GroupRows(spec, batch, i, groups) ==
    IF i > Len(batch) THEN groups
    ELSE LET key == RowKey(spec, batch[i])
         IN GroupRows(spec, batch, i + 1,
                IF key \in DOMAIN groups
                THEN [groups EXCEPT ![key] = Append(@, i)]
                ELSE groups @@ (key :> <<i>>))

\* PartitionSplitter::split_by_partition: Err(TransformError), or the map
\* from PartitionKey to the sub-batch of that key's rows.
split_by_partition(spec, batch) ==
    IF \E i \in 1..Len(batch), f \in 1..Len(spec) :
           ~TransformOk(spec[f].transform, batch[i][spec[f].source_column_id])
    THEN [ok |-> FALSE, groups |-> EmptyMap]
    ELSE LET idx == GroupRows(spec, batch, 1, EmptyMap)
         IN [ok |-> TRUE,
             groups |-> [k \in DOMAIN idx |->
                            [j \in 1..Len(idx[k]) |-> batch[idx[k][j]]]]]

\* PartitionSplitter::convert_key_to_value: the typed struct of a key, one
\* named field per partition field; an error for a key of another shape.
convert_key_to_value(spec, key) ==
    IF Len(key) # Len(spec) THEN [ok |-> FALSE, value |-> <<>>]
    ELSE [ok |-> TRUE,
          value |-> [i \in 1..Len(spec) |-> [name |-> spec[i].name, value |-> key[i]]]]

\* ------------------------------------------------------------ inner writer

\* The inner writer a builder yields: it has received no batch.
InnerBuild(id) == [id |-> id, batches |-> <<>>]

\* The inner writer's write: it keeps the batch after those it holds.
InnerWrite(writer, batch) == [writer EXCEPT !.batches = Append(@, batch)]

\* The inner writer's flush: one result per batch it holds, in order, none
\* with a partition yet.
InnerFlush(writer) ==
    [j \in 1..Len(writer.batches) |->
        [src |-> writer.id, seq |-> j, num_rows |-> Len(writer.batches[j]),
         partition |-> Option_None, nset |-> 0]]

\* IcebergWriteResult::set_partition
set_partition(res, partition) ==
    [res EXCEPT !.partition = partition, !.nset = @ + 1]

\* ------------------------------------------------- GenericGauge<AtomicU64>

\* The gauge's u64, as four 16-bit limbs, most significant first.
LimbBase == 65536

U64(n) == <<0, 0, 0, n>>

\* AtomicU64 inc_by: wrapping addition of d < LimbBase.
RECURSIVE AddLimbs(_, _, _)
AddLimbs(g, i, carry) ==
    IF i = 0 THEN g
    ELSE LET s == g[i] + carry
         IN AddLimbs([g EXCEPT ![i] = s % LimbBase], i - 1, s \div LimbBase)

gauge_add(g, d) == AddLimbs(g, 4, d)

\* AtomicU64 dec_by: wrapping subtraction of d < LimbBase.
RECURSIVE SubLimbs(_, _, _)
SubLimbs(g, i, borrow) ==
    IF i = 0 THEN g
    ELSE LET s == g[i] - borrow
         IN SubLimbs([g EXCEPT ![i] = s % LimbBase], i - 1, IF s < 0 THEN 1 ELSE 0)

gauge_sub(g, d) == SubLimbs(g, 4, d)

\* ------------------------------------------------------------------ state

VARIABLES
    writers,          \* the decorated writers that were built
    partition_spec,   \* the PartitionSpec the builder was given
    schema,           \* the number of columns of the arrow schema
    inner_writers,    \* per writer: PartitionKey -> inner writer
    built,            \* per writer: inner writers its inner builder has built
    current_metrics,  \* per decorator: the partition_num it recorded last
    partition_num,    \* the gauge the decorators share
    drained,          \* <<writer, id>> of the inner writers flush took out of a map
    finalized,        \* <<writer, id>> of the inner writers whose flush was invoked
    touched,          \* per writer: keys of the batches split since the last flush
    flushed,          \* per writer: a flush call has returned
    inner_failed,     \* per writer: an inner build or write failed since the last flush
    last,             \* the call that returned last
    budget            \* rows the callers may still feed

vars == <<writers, partition_spec, schema, inner_writers, built, current_metrics,
          partition_num, drained, finalized, touched, flushed, inner_failed, last, budget>>

\* The sum of the lengths of the sequences f maps the keys of S to.
RECURSIVE SumLen(_, _)
SumLen(f, S) ==
    IF S = {} THEN 0
    ELSE LET k == CHOOSE x \in S : TRUE IN Len(f[k]) + SumLen(f, S \ {k})

\* metrics counting the batches written instead of the map's entries.
metrics_counts_writes(map) ==
    [partition_num |-> SumLen([k \in DOMAIN map |-> map[k].batches], DOMAIN map)]

\* FanoutPartitionedWriter::metrics
metrics(map) == [partition_num |-> Cardinality(DOMAIN map)]

\* No failure injected into a call.
NoFail == [at |-> 0, what |-> "none"]

\* The failures an inner builder or inner writer may answer a call of n
\* groups with: the build or the write of the at-th group processed.
Fails(n) == {NoFail} \cup {[at |-> i, what |-> x] : i \in 1..n, x \in {"build", "write"}}

\* ------------------------------------------------- FanoutPartitionedWriter

\* The write loop, taking every key whose first field equals that of a key in
\* the map for that key: the entry is looked up by a prefix of the key.
RECURSIVE WriteGroups_prefix_lookup(_, _, _, _, _, _)
WriteGroups_prefix_lookup(map, n, groups, order, i, fail) ==
    IF i > Len(order) THEN [map |-> map, built |-> n, err |-> "none"]
    ELSE LET key == order[i]
             same == {k \in DOMAIN map : k[1] = key[1]}
         IN IF same # {}
            THEN LET found == CHOOSE k \in same : TRUE
                 IN WriteGroups_prefix_lookup(
                        [map EXCEPT ![found] = InnerWrite(@, groups[key])],
                        n, groups, order, i + 1, fail)
            ELSE WriteGroups_prefix_lookup(
                     map @@ (key :> InnerWrite(InnerBuild(n + 1), groups[key])),
                     n + 1, groups, order, i + 1, fail)

\* The write loop, inserting the new inner writer of a vacant key without
\* writing the sub-batch to it.
RECURSIVE WriteGroups_vacant_drops_batch(_, _, _, _, _, _)
WriteGroups_vacant_drops_batch(map, n, groups, order, i, fail) ==
    IF i > Len(order) THEN [map |-> map, built |-> n, err |-> "none"]
    ELSE LET key == order[i]
         IN IF key \in DOMAIN map
            THEN WriteGroups_vacant_drops_batch(
                     [map EXCEPT ![key] = InnerWrite(@, groups[key])],
                     n, groups, order, i + 1, fail)
            ELSE WriteGroups_vacant_drops_batch(
                     map @@ (key :> InnerBuild(n + 1)),
                     n + 1, groups, order, i + 1, fail)

\* The write loop, building an inner writer for every group before it looks
\* the key up, and dropping it when the key is in the map.
RECURSIVE WriteGroups_builds_eagerly(_, _, _, _, _, _)
WriteGroups_builds_eagerly(map, n, groups, order, i, fail) ==
    IF i > Len(order) THEN [map |-> map, built |-> n, err |-> "none"]
    ELSE LET key == order[i]
             failsHere(x) == fail.at = i /\ fail.what = x
         IN IF failsHere("build")
            THEN [map |-> map, built |-> n, err |-> "inner_build"]
            ELSE LET inserted == IF key \in DOMAIN map THEN map
                                 ELSE map @@ (key :> InnerBuild(n + 1))
                 IN IF failsHere("write")
                    THEN [map |-> inserted, built |-> n + 1, err |-> "inner_write"]
                    ELSE WriteGroups_builds_eagerly(
                             [inserted EXCEPT ![key] = InnerWrite(@, groups[key])],
                             n + 1, groups, order, i + 1, fail)

\* The write loop, removing the entry of a key whose inner write failed.
RECURSIVE WriteGroups_removes_failed(_, _, _, _, _, _)
WriteGroups_removes_failed(map, n, groups, order, i, fail) ==
    IF i > Len(order) THEN [map |-> map, built |-> n, err |-> "none"]
    ELSE LET key == order[i]
             failsHere(x) == fail.at = i /\ fail.what = x
         IN IF key \in DOMAIN map
            THEN IF failsHere("write")
                 THEN [map |-> [k \in DOMAIN map \ {key} |-> map[k]], built |-> n,
                       err |-> "inner_write"]
                 ELSE WriteGroups_removes_failed(
                          [map EXCEPT ![key] = InnerWrite(@, groups[key])],
                          n, groups, order, i + 1, fail)
            ELSE IF failsHere("build")
                 THEN [map |-> map, built |-> n, err |-> "inner_build"]
                 ELSE IF failsHere("write")
                 THEN [map |-> map, built |-> n + 1, err |-> "inner_write"]
                 ELSE WriteGroups_removes_failed(
                          map @@ (key :> InnerWrite(InnerBuild(n + 1), groups[key])),
                          n + 1, groups, order, i + 1, fail)

\* The write loop, inserting a newly built inner writer under a key that is
\* in the map already: the inner writer it held is replaced.
RECURSIVE WriteGroups_replaces_occupied(_, _, _, _, _, _)
WriteGroups_replaces_occupied(map, n, groups, order, i, fail) ==
    IF i > Len(order) THEN [map |-> map, built |-> n, err |-> "none"]
    ELSE LET key == order[i]
             failsHere(x) == fail.at = i /\ fail.what = x
             fresh == InnerBuild(n + 1)
             inserted == [k \in DOMAIN map \cup {key} |->
                             IF k = key THEN fresh ELSE map[k]]
         IN IF failsHere("build")
            THEN [map |-> map, built |-> n, err |-> "inner_build"]
            ELSE IF failsHere("write")
            THEN [map |-> inserted, built |-> n + 1, err |-> "inner_write"]
            ELSE WriteGroups_replaces_occupied(
                     [inserted EXCEPT ![key] = InnerWrite(@, groups[key])],
                     n + 1, groups, order, i + 1, fail)

\* The write loop, building the inner writer of a vacant key and writing
\* the sub-batch to it before the insert: a failed first write drops it.
RECURSIVE WriteGroups_inserts_after_write(_, _, _, _, _, _)
WriteGroups_inserts_after_write(map, n, groups, order, i, fail) ==
    IF i > Len(order) THEN [map |-> map, built |-> n, err |-> "none"]
    ELSE LET key == order[i]
             failsHere(x) == fail.at = i /\ fail.what = x
         IN IF key \in DOMAIN map
            THEN IF failsHere("write")
                 THEN [map |-> map, built |-> n, err |-> "inner_write"]
                 ELSE WriteGroups_inserts_after_write(
                          [map EXCEPT ![key] = InnerWrite(@, groups[key])],
                          n, groups, order, i + 1, fail)
            ELSE IF failsHere("build")
                 THEN [map |-> map, built |-> n, err |-> "inner_build"]
                 ELSE IF failsHere("write")
                 THEN [map |-> map, built |-> n + 1, err |-> "inner_write"]
                 ELSE WriteGroups_inserts_after_write(
                          map @@ (key :> InnerWrite(InnerBuild(n + 1), groups[key])),
                          n + 1, groups, order, i + 1, fail)

\* The loop of write over the split batch, from the i-th group on.
RECURSIVE WriteGroups(_, _, _, _, _, _)
WriteGroups(map, n, groups, order, i, fail) ==
    IF i > Len(order) THEN [map |-> map, built |-> n, err |-> "none"]
    ELSE LET key == order[i]
             failsHere(x) == fail.at = i /\ fail.what = x
         IN IF key \in DOMAIN map
            THEN \* Entry::Occupied
                 IF failsHere("write")
                 THEN [map |-> map, built |-> n, err |-> "inner_write"]
                 ELSE WriteGroups([map EXCEPT ![key] = InnerWrite(@, groups[key])],
                                  n, groups, order, i + 1, fail)
            ELSE \* Entry::Vacant
                 IF failsHere("build")
                 THEN [map |-> map, built |-> n, err |-> "inner_build"]
                 ELSE LET inserted == map @@ (key :> InnerBuild(n + 1))
                      IN IF failsHere("write")
                         THEN [map |-> inserted, built |-> n + 1, err |-> "inner_write"]
                         ELSE WriteGroups(
                                  [inserted EXCEPT ![key] = InnerWrite(@, groups[key])],
                                  n + 1, groups, order, i + 1, fail)

\* write splitting row by row: the groups of the rows before the first
\* malformed one are delivered before the split error is returned.
write_splits_lazily(spec, map, n, batch, order, fail) ==
    LET bad == {i \in DOMAIN batch :
                   \E f \in DOMAIN spec :
                       ~TransformOk(spec[f].transform, batch[i][spec[f].source_column_id])}
    IN IF bad = {}
       THEN WriteGroups(map, n, split_by_partition(spec, batch).groups, order, 1, fail)
       ELSE LET first == CHOOSE i \in bad : \A j \in bad : i <= j
                groups == split_by_partition(spec, SubSeq(batch, 1, first - 1)).groups
                r == WriteGroups(map, n, groups,
                                 CHOOSE o \in Orders(DOMAIN groups) : TRUE, 1, NoFail)
            IN [map |-> r.map, built |-> r.built, err |-> "split"]

\* write undoing the groups it delivered when a later group fails.
write_rolls_back(spec, map, n, batch, order, fail) ==
    LET split_batch == split_by_partition(spec, batch)
        r == WriteGroups(map, n, split_batch.groups, order, 1, fail)
    IN IF ~split_batch.ok THEN [map |-> map, built |-> n, err |-> "split"]
       ELSE IF r.err = "none" THEN r
       ELSE [map |-> map, built |-> r.built, err |-> r.err]

\* FanoutPartitionedWriter::write
write(spec, map, n, batch, order, fail) ==
    LET split_batch == split_by_partition(spec, batch)
    IN IF ~split_batch.ok
       THEN [map |-> map, built |-> n, err |-> "split"]
       ELSE WriteGroups(map, n, split_batch.groups, order, 1, fail)

\* The flush loop, keeping the results of the last partition only.
RECURSIVE FlushWriters_overwrites(_, _, _, _, _, _)
FlushWriters_overwrites(spec, taken, order, i, fail, res_vec) ==
    IF i > Len(order) THEN [res |-> res_vec, err |-> "none", reached |-> i - 1]
    ELSE IF fail.at = i THEN [res |-> <<>>, err |-> "inner_flush", reached |-> i]
    ELSE LET res == InnerFlush(taken[order[i]])
             value == convert_key_to_value(spec, order[i]).value
         IN FlushWriters_overwrites(spec, taken, order, i + 1, fail,
                [j \in 1..Len(res) |-> set_partition(res[j], Some(value))])

\* The flush loop, converting the first key once and stamping every result
\* with that value.
RECURSIVE FlushWriters_stale_value(_, _, _, _, _, _)
FlushWriters_stale_value(spec, taken, order, i, fail, res_vec) ==
    IF i > Len(order) THEN [res |-> res_vec, err |-> "none", reached |-> i - 1]
    ELSE IF fail.at = i THEN [res |-> <<>>, err |-> "inner_flush", reached |-> i]
    ELSE LET res == InnerFlush(taken[order[i]])
             value == convert_key_to_value(spec, order[1]).value
         IN FlushWriters_stale_value(spec, taken, order, i + 1, fail,
                res_vec \o [j \in 1..Len(res) |-> set_partition(res[j], Some(value))])

\* The flush loop, returning the results gathered so far with the error.
RECURSIVE FlushWriters_partial_results(_, _, _, _, _, _)
FlushWriters_partial_results(spec, taken, order, i, fail, res_vec) ==
    IF i > Len(order) THEN [res |-> res_vec, err |-> "none", reached |-> i - 1]
    ELSE IF fail.at = i THEN [res |-> res_vec, err |-> "inner_flush", reached |-> i]
    ELSE LET res == InnerFlush(taken[order[i]])
             value == convert_key_to_value(spec, order[i]).value
         IN FlushWriters_partial_results(spec, taken, order, i + 1, fail,
                res_vec \o [j \in 1..Len(res) |-> set_partition(res[j], Some(value))])

\* The flush loop, returning Ok before it reaches the last writer taken.
RECURSIVE FlushWriters_skips_last(_, _, _, _, _, _)
FlushWriters_skips_last(spec, taken, order, i, fail, res_vec) ==
    IF i >= Len(order) THEN [res |-> res_vec, err |-> "none", reached |-> i - 1]
    ELSE IF fail.at = i THEN [res |-> <<>>, err |-> "inner_flush", reached |-> i]
    ELSE LET res == InnerFlush(taken[order[i]])
             value == convert_key_to_value(spec, order[i]).value
         IN FlushWriters_skips_last(spec, taken, order, i + 1, fail,
                res_vec \o [j \in 1..Len(res) |-> set_partition(res[j], Some(value))])

\* The loop of flush over the writers taken out of the map.
RECURSIVE FlushWriters(_, _, _, _, _, _)
FlushWriters(spec, taken, order, i, fail, res_vec) ==
    IF i > Len(order) THEN [res |-> res_vec, err |-> "none", reached |-> i - 1]
    ELSE LET key == order[i]
             partition_value == convert_key_to_value(spec, key)
         IN IF ~partition_value.ok
            THEN [res |-> <<>>, err |-> "key_to_value", reached |-> i - 1]
            ELSE IF fail.at = i
            THEN [res |-> <<>>, err |-> "inner_flush", reached |-> i]
            ELSE LET res == InnerFlush(taken[key])
                     stamped == [j \in 1..Len(res) |->
                                    set_partition(res[j], Some(partition_value.value))]
                 IN FlushWriters(spec, taken, order, i + 1, fail, res_vec \o stamped)

\* flush giving the writers it did not finalize back to the map on an error.
flush_returns_unreached(spec, map, order, fail) ==
    LET r == FlushWriters(spec, map, order, 1, fail, <<>>)
        unreached == {order[i] : i \in (r.reached + 1)..Len(order)}
    IN [map |-> IF r.err = "none" THEN EmptyMap ELSE [k \in unreached |-> map[k]],
        res |-> r.res, err |-> r.err, reached |-> r.reached]

\* flush iterating the map in place and clearing it after the loop, which an
\* error does not reach.
flush_clears_after_loop(spec, map, order, fail) ==
    LET r == FlushWriters(spec, map, order, 1, fail, <<>>)
    IN [map |-> IF r.err = "none" THEN EmptyMap ELSE map,
        res |-> r.res, err |-> r.err, reached |-> r.reached]

\* flush iterating the map in place instead of taking it.
flush_keeps_map(spec, map, order, fail) ==
    LET r == FlushWriters(spec, map, order, 1, fail, <<>>)
    IN [map |-> map, res |-> r.res, err |-> r.err, reached |-> r.reached]

\* FanoutPartitionedWriter::flush: the map left in the writer, the result,
\* and how many of the taken writers had their flush invoked.
flush(spec, map, order, fail) ==
    LET inner_writers_taken == map
        r == FlushWriters(spec, inner_writers_taken, order, 1, fail, <<>>)
    IN [map |-> EmptyMap, res |-> r.res, err |-> r.err, reached |-> r.reached]

\* ------------------------------------- FanoutPartitionedWriterWithMetrics

\* update_metrics adjusting the gauge without replacing the recorded count.
update_metrics_keeps_record(recorded, gauge, map) ==
    LET current == metrics(map).partition_num
        delta == current - recorded
    IN [current_metrics |-> recorded,
        gauge |-> IF delta > 0 THEN gauge_add(gauge, delta)
                  ELSE gauge_sub(gauge, IF delta < 0 THEN -delta ELSE delta)]

\* update_metrics moving the gauge by one in the direction of the change.
update_metrics_steps_by_one(recorded, gauge, map) ==
    LET current == metrics(map).partition_num
        delta == current - recorded
    IN [current_metrics |-> current,
        gauge |-> IF delta > 0 THEN gauge_add(gauge, 1)
                  ELSE IF delta < 0 THEN gauge_sub(gauge, 1) ELSE gauge]

\* update_metrics: the recorded count and the gauge after it.
update_metrics(recorded, gauge, map) ==
    LET current == metrics(map).partition_num
        delta == current - recorded
    IN [current_metrics |-> current,
        gauge |-> IF delta > 0 THEN gauge_add(gauge, delta)
                  ELSE gauge_sub(gauge, IF delta < 0 THEN -delta ELSE delta)]

\* FanoutPartitionedWriterBuilder::build and the decorated builder's build:
\* an empty writer map, a recorded count of 0.
InitWith(ws, spec, ncols, rows) ==
    /\ writers = ws
    /\ partition_spec = spec
    /\ schema = ncols
    /\ inner_writers = [w \in Writers |-> EmptyMap]
    /\ built = [w \in Writers |-> 0]
    /\ current_metrics = [w \in Writers |-> 0]
    /\ partition_num = U64(0)
    /\ drained = {}
    /\ finalized = {}
    /\ touched = [w \in Writers |-> {}]
    /\ flushed = [w \in Writers |-> FALSE]
    /\ inner_failed = [w \in Writers |-> FALSE]
    /\ last = [w |-> "none", op |-> "build", batch |-> <<>>, err |-> "none",
               res |-> <<>>, processed |-> <<>>, delta |-> 0]
    /\ budget = rows

\* test_metrics_writer: two writers, two columns, create_partition().
Init == InitWith(Writers, create_partition, 2, MaxRows)

\* test_partition_delta_writer: one writer, a trailing third column; any of
\* the specs.
InitDelta ==
    \E spec \in {create_partition, TruncateSpec, TwoFieldSpec} :
        InitWith({"writer_1"}, spec, 3, MaxDeltaRows)

\* The decorated write of one batch by writer w.
Write(w, batch, order, fail) ==
    LET r == write(partition_spec, inner_writers[w], built[w], batch, order, fail)
        m == update_metrics(current_metrics[w], partition_num, r.map)
        split == split_by_partition(partition_spec, batch)
        \* the groups the loop took up, the failing one included
        processed == IF r.err \in {"inner_build", "inner_write"}
                     THEN SubSeq(order, 1, fail.at)
                     ELSE IF r.err = "none" THEN order ELSE <<>>
    IN /\ Len(batch) <= budget
       /\ budget' = budget - Len(batch)
       /\ inner_writers' = [inner_writers EXCEPT ![w] = r.map]
       /\ built' = [built EXCEPT ![w] = r.built]
       /\ IF r.err = "none"
          THEN /\ current_metrics' = [current_metrics EXCEPT ![w] = m.current_metrics]
               /\ partition_num' = m.gauge
          ELSE UNCHANGED <<current_metrics, partition_num>>
       /\ touched' = [touched EXCEPT ![w] = @ \cup
              IF split.ok THEN {RowKey(partition_spec, batch[i]) : i \in 1..Len(batch)}
              ELSE {}]
       /\ inner_failed' = [inner_failed EXCEPT
                              ![w] = @ \/ r.err \in {"inner_build", "inner_write"}]
       /\ last' = [w |-> w, op |-> "write", batch |-> batch, err |-> r.err,
                   res |-> <<>>, processed |-> processed,
                   delta |-> IF r.err = "none"
                             THEN m.current_metrics - current_metrics[w] ELSE 0]
       /\ UNCHANGED <<writers, partition_spec, schema, drained, finalized, flushed>>

\* The decorated flush of writer w.
Flush(w, order, fail) ==
    LET r == flush(partition_spec, inner_writers[w], order, fail)
        m == update_metrics(current_metrics[w], partition_num, r.map)
    IN /\ inner_writers' = [inner_writers EXCEPT ![w] = r.map]
       /\ IF r.err = "none"
          THEN /\ current_metrics' = [current_metrics EXCEPT ![w] = m.current_metrics]
               /\ partition_num' = m.gauge
          ELSE UNCHANGED <<current_metrics, partition_num>>
       /\ drained' = drained \cup {<<w, inner_writers[w][k].id>> : k \in DOMAIN inner_writers[w]}
       /\ finalized' = finalized \cup
              {<<w, inner_writers[w][order[i]].id>> : i \in 1..r.reached}
       /\ touched' = [touched EXCEPT ![w] = {}]
       /\ flushed' = [flushed EXCEPT ![w] = TRUE]
       /\ inner_failed' = [inner_failed EXCEPT ![w] = FALSE]
       /\ last' = [w |-> w, op |-> "flush", batch |-> <<>>, err |-> r.err,
                   res |-> r.res, processed |-> SubSeq(order, 1, r.reached),
                   delta |-> IF r.err = "none"
                             THEN m.current_metrics - current_metrics[w] ELSE 0]
       /\ UNCHANGED <<writers, partition_spec, schema, built, budget>>

WriteCall ==
    \E w \in writers, batch \in Batches(schema, budget) :
        \E order \in Orders(DOMAIN split_by_partition(partition_spec, batch).groups) :
            \E fail \in Fails(Len(order)) : Write(w, batch, order, fail)

FlushCall ==
    \E w \in writers :
        \E order \in Orders(DOMAIN inner_writers[w]) :
            \E fail \in {NoFail} \cup {[at |-> i, what |-> "flush"] : i \in 1..Len(order)} :
                Flush(w, order, fail)

Next == WriteCall \/ FlushCall

Spec == Init /\ [][Next]_vars

SpecDelta == InitDelta /\ [][Next]_vars

\* ---------------------------------------------------------------- claims

\* The open-partition count of writer w.
PartitionNum(w) == metrics(inner_writers[w]).partition_num

\* C1: while no inner build or write has failed, the open-partition count of
\* a writer equals the number of distinct partition keys of the batches
\* written to it since it was built (or flushed last), however often and in
\* however many batches each key was written.
C1_PartitionNumIsDistinctKeys ==
    \A w \in writers :
        ~inner_failed[w] => PartitionNum(w) = Cardinality(touched[w])

\* A never-flushed writer holding two keys, one of them written in two batches.
C1_Witness ==
    \E w \in writers :
        /\ ~flushed[w] /\ ~inner_failed[w]
        /\ Cardinality(touched[w]) = 2
        /\ \E k \in DOMAIN inner_writers[w] : Len(inner_writers[w][k].batches) = 2

\* C4: once a flush call has returned, with a result or with an error, the
\* writer holds zero inner writers.
C4_FlushLeavesNoPartition ==
    \A w \in writers : (last.op = "flush" /\ last.w = w) => PartitionNum(w) = 0

\* A flush that returned the results of two partitions.
C4_Witness ==
    /\ last.op = "flush"
    /\ \E i, j \in DOMAIN last.res : last.res[i].src # last.res[j].src

\* The concatenation of a sequence of batches.
RECURSIVE Concat(_)
Concat(batches) ==
    IF batches = <<>> THEN <<>> ELSE Head(batches) \o Concat(Tail(batches))

\* How often row r occurs in a batch.
Count(batch, r) == Cardinality({i \in DOMAIN batch : batch[i] = r})

\* The sub-batches the inner writer under key k holds in map new and did not
\* hold in map old.
Delivered(old, new, k) ==
    IF k \notin DOMAIN new THEN <<>>
    ELSE SubSeq(new[k].batches,
                (IF k \in DOMAIN old THEN Len(old[k].batches) ELSE 0) + 1,
                Len(new[k].batches))

\* The step is a write call that returned Ok.
WriteOkStep == last'.op = "write" /\ last'.err = "none"

\* C2: a successful write(B) delivers every row of B to the inner writer held
\* in the map under the row's partition key and to no other: each key of B
\* receives exactly one sub-batch, which holds every row of B with that key;
\* a key that was in the map keeps its inner writer, and different keys have
\* different inner writers.
C2_Routing ==
    [][WriteOkStep =>
        LET w == last'.w
            B == last'.batch
            old == inner_writers[w]
            new == inner_writers'[w]
        IN /\ \A i \in DOMAIN B :
                LET key == RowKey(partition_spec, B[i])
                IN /\ key \in DOMAIN new
                   /\ Len(Delivered(old, new, key)) = 1
                   /\ key \in DOMAIN old => new[key].id = old[key].id
                   /\ \A k \in DOMAIN new :
                        Count(Concat(Delivered(old, new, k)), B[i]) =
                            IF k = key THEN Count(B, B[i]) ELSE 0
           /\ \A k1, k2 \in DOMAIN new : k1 # k2 => new[k1].id # new[k2].id
    ]_vars

\* A write of two rows with different first columns and one key under the
\* truncate spec, and a write of two rows of different keys.
C2_Witness ==
    /\ last.op = "write" /\ last.err = "none" /\ Len(last.batch) = 2
    /\ last.batch[1][1] # last.batch[2][1]
    /\ RowKey(partition_spec, last.batch[1]) = RowKey(partition_spec, last.batch[2])
    /\ Len(inner_writers[last.w][RowKey(partition_spec, last.batch[1])].batches) = 1

\* A batch without its trailing column.
DropLastColumn(batch) ==
    [i \in DOMAIN batch |-> SubSeq(batch[i], 1, Len(batch[i]) - 1)]

\* C3: the sub-batches a successful write(B) delivers hold, taken together,
\* exactly the rows of B, each as often as B holds it and with every column
\* unchanged; without the trailing column, which no partition field
\* references, the batch splits into the same keys and the same groups, and
\* each delivered sub-batch is that group with the trailing cells of its rows.
C3_RowConservation ==
    [][WriteOkStep =>
        LET w == last'.w
            B == last'.batch
            old == inner_writers[w]
            new == inner_writers'[w]
            rows(k) == Concat(Delivered(old, new, k))
            narrow == split_by_partition(partition_spec, DropLastColumn(B))
        IN /\ \A r \in Rows(schema) :
                Count(B, r) =
                    Cardinality(UNION {{<<k, j>> : j \in {x \in DOMAIN rows(k) : rows(k)[x] = r}} :
                                          k \in DOMAIN new})
           /\ narrow.ok
           /\ DOMAIN narrow.groups = {k \in DOMAIN new : rows(k) # <<>>}
           /\ \A k \in DOMAIN narrow.groups :
                /\ DropLastColumn(rows(k)) = narrow.groups[k]
                /\ \E pos \in [DOMAIN rows(k) -> DOMAIN B] :
                      /\ \A x, y \in DOMAIN pos : x < y => pos[x] < pos[y]
                      /\ \A x \in DOMAIN pos : rows(k)[x] = B[pos[x]]
    ]_vars

\* A write of two rows that differ in the trailing column only, into a map
\* that holds another key already.
C3_Witness ==
    /\ last.op = "write" /\ last.err = "none" /\ Len(last.batch) = 2
    /\ schema = 3
    /\ last.batch[1][3] # last.batch[2][3]
    /\ DropLastColumn(last.batch)[1] = DropLastColumn(last.batch)[2]
    /\ Cardinality(DOMAIN inner_writers[last.w]) = 1

\* The step is a flush call that returned Ok.
FlushOkStep == last'.op = "flush" /\ last'.err = "none"

\* A result record as its inner writer yielded it.
Unstamped(res) ==
    [j \in DOMAIN res |-> [res[j] EXCEPT !.partition = Option_None, !.nset = 0]]

\* C5: the sequence a successful flush returns holds the results of the inner
\* writers that were in the map when flush was called and no other record;
\* the records of one inner writer are, in order, exactly those its flush
\* yielded, so the length is the sum of the partitions' result counts.
C5_FlushReturnsEveryResultOnce ==
    [][FlushOkStep =>
        LET taken == inner_writers[last'.w]
            res == last'.res
        IN /\ \A i \in DOMAIN res : \E k \in DOMAIN taken : res[i].src = taken[k].id
           /\ \A k \in DOMAIN taken :
                LET of_k(rec) == rec.src = taken[k].id
                IN Unstamped(SelectSeq(res, of_k)) = InnerFlush(taken[k])
           /\ Len(res) = SumLen([k \in DOMAIN taken |-> InnerFlush(taken[k])], DOMAIN taken)
    ]_vars

\* A flush that returned two records of one partition and one of another.
C5_Witness ==
    /\ last.op = "flush" /\ last.err = "none"
    /\ \E i, j, k \in DOMAIN last.res :
          /\ i # j
          /\ last.res[i].src = last.res[j].src
          /\ last.res[i].src # last.res[k].src

\* C6: every record a successful flush returns has its partition set, once,
\* to a non-empty value: the struct whose fields have, in spec field order,
\* the names of the partition fields and the values of the key under which
\* the inner writer that yielded the record was stored.
C6_ResultsCarryTheirPartition ==
    [][FlushOkStep =>
        LET taken == inner_writers[last'.w]
            res == last'.res
        IN \A i \in DOMAIN res :
              \E key \in DOMAIN taken :
                 /\ taken[key].id = res[i].src
                 /\ res[i].nset = 1
                 /\ res[i].partition # Option_None
                 /\ LET value == res[i].partition[1]
                    IN /\ Len(value) = Len(partition_spec)
                       /\ Len(value) > 0
                       /\ \A f \in DOMAIN value :
                             /\ value[f].name = partition_spec[f].name
                             /\ value[f].value = key[f]
    ]_vars

\* A flush that returned records of two partitions with different values.
C6_Witness ==
    /\ last.op = "flush" /\ last.err = "none"
    /\ \E i, j \in DOMAIN last.res : last.res[i].partition # last.res[j].partition

\* C7: with one decorated writer on the gauge, the gauge equals the writer's
\* metrics().partition_num after every write and flush call.
C7_GaugeIsPartitionNum ==
    \A w \in writers : writers = {w} => partition_num = U64(PartitionNum(w))

\* The open partitions of the writers of S, summed.
RECURSIVE OpenPartitions(_)
OpenPartitions(S) ==
    IF S = {} THEN 0
    ELSE LET w == CHOOSE x \in S : TRUE IN PartitionNum(w) + OpenPartitions(S \ {w})

\* C8: the gauge the writers share equals the sum of their open-partition
\* counts after any sequence of write and flush calls.
C8_SharedGaugeIsSum == partition_num = U64(OpenPartitions(writers))

\* C9 as stated: a writer that a flush has drained never holds an inner
\* writer again.
C9_FinalizedIsTerminal ==
    \A w \in writers : flushed[w] => DOMAIN inner_writers[w] = {}

\* C9: a flush leaves the writer without inner writers, and the inner writers
\* it took out of the map never come back; the instance still accepts writes,
\* so the inner writers a flushed writer holds were all built after the flush
\* that drained it.
C9_DrainedWritersNeverReturn ==
    \A w \in writers :
        \A k \in DOMAIN inner_writers[w] :
            /\ <<w, inner_writers[w][k].id>> \notin drained
            /\ \A d \in drained : d[1] = w => d[2] < inner_writers[w][k].id

\* A writer that was flushed after a write and holds an inner writer again.
C9_Witness ==
    \E w \in writers :
        /\ flushed[w]
        /\ \E d \in drained : d[1] = w
        /\ DOMAIN inner_writers[w] # {}

\* C10: a write call whose split fails changes neither the key set of the
\* writer map nor any inner writer, and builds no inner writer.
C10_SplitFailureMutatesNothing ==
    [][(last'.op = "write" /\ last'.err = "split") =>
        UNCHANGED <<inner_writers, built, current_metrics, partition_num>>
    ]_vars

\* A failed split of a batch whose first row is well-formed, by a writer
\* that holds an inner writer.
C10_Witness ==
    /\ last.op = "write" /\ last.err = "split"
    /\ Len(last.batch) >= 2 /\ last.batch[1][1] # Malformed
    /\ DOMAIN inner_writers[last.w] # {}

\* The keys of the rows of a batch.
KeysOf(batch) == {RowKey(partition_spec, batch[i]) : i \in DOMAIN batch}

\* The rows of a batch that have key k, in the order of the batch.
RowsOf(batch, k) ==
    LET has_k(row) == RowKey(partition_spec, row) = k IN SelectSeq(batch, has_k)

\* The elements of a sequence.
Range(seq) == {seq[i] : i \in DOMAIN seq}

\* C11: when an inner writer's write fails inside write(B), the groups taken
\* up before the failing one stay delivered, each to the inner writer under
\* its key (built for it when the key was new), the failing group is not
\* delivered, and the groups not yet taken up are neither delivered nor
\* given an inner writer.
C11_InnerWriteFailureStopsTheCall ==
    [][(last'.op = "write" /\ last'.err = "inner_write") =>
        LET w == last'.w
            B == last'.batch
            old == inner_writers[w]
            new == inner_writers'[w]
            at == Len(last'.processed)
            failing == last'.processed[at]
            before == {last'.processed[i] : i \in 1..(at - 1)}
            pending == KeysOf(B) \ Range(last'.processed)
        IN /\ at >= 1
           /\ Range(last'.processed) \subseteq KeysOf(B)
           /\ \A k \in before :
                /\ k \in DOMAIN new
                /\ Delivered(old, new, k) = <<RowsOf(B, k)>>
           /\ Delivered(old, new, failing) = <<>>
           /\ \A k \in pending :
                /\ Delivered(old, new, k) = <<>>
                /\ k \in DOMAIN new <=> k \in DOMAIN old
           /\ \A k \in DOMAIN old : k \in DOMAIN new /\ new[k].id = old[k].id
    ]_vars

\* A write that failed at its second group after it had built the inner
\* writer of the first group and delivered to it.
C11_Witness ==
    /\ last.op = "write" /\ last.err = "inner_write"
    /\ Len(last.processed) = 2
    /\ inner_writers[last.w][last.processed[1]].batches =
           <<RowsOf(last.batch, last.processed[1])>>
    /\ ~flushed[last.w]

\* C12: a flush in which the finalize of a partition fails returns the error
\* and no result, has invoked the finalize of the partitions up to the
\* failing one and of no other, and leaves none of the inner writers it took
\* out of the map in the map.
C12_FlushFailsFast ==
    [][(last'.op = "flush" /\ last'.err # "none") =>
        LET w == last'.w
            taken == inner_writers[w]
            invoked == {<<w, taken[k].id>> : k \in Range(last'.processed)}
        IN /\ last'.res = <<>>
           /\ finalized' = finalized \cup invoked
           /\ \A k \in DOMAIN taken \ Range(last'.processed) :
                 <<w, taken[k].id>> \notin finalized'
           /\ Range(last'.processed) \subseteq DOMAIN taken
           /\ DOMAIN inner_writers'[w] = {}
    ]_vars

\* A failed flush of two partitions that finalized one.
C12_Witness ==
    /\ last.op = "flush" /\ last.err = "inner_flush"
    /\ Len(last.processed) = 1
    /\ \E d \in drained \ finalized : d[1] = last.w

\* C20: when the build of the inner writer of a new key fails, the key is not
\* added to the map; when the build succeeds and the first write to the new
\* inner writer fails, the new inner writer stays in the map under the key
\* with no batch, and the open-partition count has grown.
C20_FailureAtANewKey ==
    [][(last'.op = "write" /\ last'.err \in {"inner_build", "inner_write"}) =>
        LET w == last'.w
            old == inner_writers[w]
            new == inner_writers'[w]
            at == Len(last'.processed)
            failing == last'.processed[at]
            before == {last'.processed[i] : i \in 1..(at - 1)}
        IN /\ last'.err = "inner_build" =>
                /\ failing \notin DOMAIN old
                /\ failing \notin DOMAIN new
                /\ DOMAIN new = DOMAIN old \cup before
                /\ built'[w] = built[w] + Cardinality(before \ DOMAIN old)
           /\ (last'.err = "inner_write" /\ failing \notin DOMAIN old) =>
                /\ failing \in DOMAIN new
                /\ new[failing].batches = <<>>
                /\ Cardinality(DOMAIN new) > Cardinality(DOMAIN old)
                /\ built'[w] = built[w] + Cardinality(before \ DOMAIN old) + 1
    ]_vars

\* A write that failed at the first write to the inner writer it built for a
\* new key.
C20_Witness ==
    /\ last.op = "write" /\ last.err = "inner_write"
    /\ LET failing == last.processed[Len(last.processed)]
       IN /\ failing \in DOMAIN inner_writers[last.w]
          /\ inner_writers[last.w][failing].batches = <<>>

\* Sequence p is a prefix of sequence q.
IsPrefix(p, q) == Len(p) <= Len(q) /\ SubSeq(q, 1, Len(p)) = p

\* The inner writers of writer w that a flush took out of its map.
DrainedOf(w) == {d \in drained : d[1] = w}

\* C13: the inner writers in a writer map are pairwise different, one per
\* key, and exactly the built inner writers that no flush has taken; a
\* write builds one inner writer for each key that was not in the map and
\* none for a key that was, whose inner writer stays the same and still
\* holds the batches written to it before.
C13_OneInnerWriterPerKey ==
    [][\A w \in writers :
        LET old == inner_writers[w]
            new == inner_writers'[w]
        IN /\ \A k1, k2 \in DOMAIN new : k1 # k2 => new[k1].id # new[k2].id
           /\ {new[k].id : k \in DOMAIN new} =
                  {i \in 1..built'[w] : <<w, i>> \notin drained'}
           /\ (last'.op = "write" /\ last'.w = w) =>
                /\ built'[w] - built[w] = Cardinality(DOMAIN new \ DOMAIN old)
                /\ \A k \in DOMAIN old :
                      /\ k \in DOMAIN new
                      /\ new[k].id = old[k].id
                      /\ IsPrefix(old[k].batches, new[k].batches)
    ]_vars

\* A second successful write to a key whose inner writer holds two batches,
\* beside a key written once.
C13_Witness ==
    /\ last.op = "write" /\ last.err = "none"
    /\ Cardinality(DOMAIN inner_writers[last.w]) = 2
    /\ built[last.w] = 2
    /\ \E k \in DOMAIN inner_writers[last.w] : Len(inner_writers[last.w][k].batches) = 2

\* C14: a write call, whether it returns Ok or Err, removes no entry of the
\* writer map, so the open-partition count does not decrease; a step that
\* removes an entry of a writer's map is a flush call on that writer.
C14_WriteNeverRemoves ==
    [][\A w \in writers :
        LET old == inner_writers[w]
            new == inner_writers'[w]
        IN /\ last'.op = "write" =>
                /\ DOMAIN old \subseteq DOMAIN new
                /\ metrics(new).partition_num >= metrics(old).partition_num
           /\ ~(DOMAIN old \subseteq DOMAIN new) => (last'.op = "flush" /\ last'.w = w)
    ]_vars

\* A write that failed at the inner write to a key that was in the map,
\* which is still there.
C14_Witness ==
    /\ last.op = "write" /\ last.err = "inner_write"
    /\ LET failing == last.processed[Len(last.processed)]
       IN /\ failing \in DOMAIN inner_writers[last.w]
          /\ Len(inner_writers[last.w][failing].batches) >= 1

\* C15: a flush call that returns Ok has invoked the flush of every inner
\* writer that was in the map when it was called, each once and none of them
\* finalized before, and all of them are finalized when it returns.
C15_CompleteBeforeReturn ==
    [][FlushOkStep =>
        LET w == last'.w
            taken == inner_writers[w]
            ids == {<<w, taken[k].id>> : k \in DOMAIN taken}
        IN /\ Range(last'.processed) = DOMAIN taken
           /\ Len(last'.processed) = Cardinality(DOMAIN taken)
           /\ ids \cap finalized = {}
           /\ ids \subseteq finalized'
           /\ finalized' \ finalized = ids
    ]_vars

\* A successful flush of two inner writers by a writer that had finalized
\* another before.
C15_Witness ==
    /\ last.op = "flush" /\ last.err = "none"
    /\ Len(last.processed) = 2
    /\ Cardinality({d \in finalized : d[1] = last.w}) = 3

\* C16: a successful write(B) appends to the batches of each key's inner
\* writer one sub-batch, the rows of B that have the key in the order B lists
\* them; the batches of earlier write calls stay before it, in their order,
\* and an inner writer whose key B lacks is left as it was.
C16_RowOrderPerPartition ==
    [][WriteOkStep =>
        LET w == last'.w
            B == last'.batch
            old == inner_writers[w]
            new == inner_writers'[w]
            earlier(k) == IF k \in DOMAIN old THEN old[k].batches ELSE <<>>
        IN \A k \in DOMAIN new :
              new[k].batches = IF k \in KeysOf(B)
                               THEN Append(earlier(k), RowsOf(B, k))
                               ELSE earlier(k)
    ]_vars

\* A key that received a second sub-batch, different from its first.
C16_Witness ==
    /\ last.op = "write" /\ last.err = "none"
    /\ \E k \in DOMAIN inner_writers[last.w] :
          LET batches == inner_writers[last.w][k].batches
          IN Len(batches) = 2 /\ batches[1] # batches[2]

\* A key whose sub-batch holds two different rows of one batch.
C16_WitnessInBatch ==
    /\ last.op = "write" /\ last.err = "none"
    /\ \E k \in DOMAIN inner_writers[last.w] :
          LET batches == inner_writers[last.w][k].batches
          IN Len(batches) = 1 /\ Len(batches[1]) = 2 /\ batches[1][1] # batches[1][2]

\* C17: no inner writer that a flush has taken out of a map, finalized or
\* not, is in a map, and a write call delivers to inner writers of the map
\* only: after a flush, and after a failed flush, a write to a key is served
\* by an inner writer built after that flush.
C17_NoWriteAfterFinalize ==
    [][/\ \A w \in writers : \A k \in DOMAIN inner_writers'[w] :
            <<w, inner_writers'[w][k].id>> \notin finalized' \cup drained'
       /\ last'.op = "write" =>
            LET w == last'.w
                old == inner_writers[w]
                new == inner_writers'[w]
            IN /\ finalized' = finalized
               /\ \A k \in DOMAIN new :
                    Delivered(old, new, k) # <<>> =>
                        /\ <<w, new[k].id>> \notin finalized
                        /\ \A d \in DrainedOf(w) : d[2] < new[k].id
    ]_vars

\* A successful write by a writer whose failed flush finalized one inner
\* writer and dropped another.
C17_Witness ==
    /\ last.op = "write" /\ last.err = "none"
    /\ \E d \in DrainedOf(last.w) : d \in finalized
    /\ \E d \in DrainedOf(last.w) : d \notin finalized
    /\ DOMAIN inner_writers[last.w] # {}

\* The recorded counts of the writers of S, summed.
RECURSIVE RecordedSum(_)
RecordedSum(S) ==
    IF S = {} THEN 0
    ELSE LET w == CHOOSE x \in S : TRUE IN current_metrics[w] + RecordedSum(S \ {w})

\* C18: the gauge equals the sum of the counts the writers sharing it have
\* recorded; its upper limbs stay zero, so no subtraction wraps below zero.
C18_GaugeIsSumOfRecorded ==
    /\ partition_num = U64(RecordedSum(writers))
    /\ \A w \in writers : current_metrics[w] >= 0

\* A call that lowered the gauge while the other writer has a count recorded.
C18_Witness ==
    /\ last.delta < 0
    /\ partition_num # U64(0)
    /\ \E w \in writers : current_metrics[w] = 0
    /\ \E w \in writers : current_metrics[w] > 0

\* C19: a decorated call that returns an error leaves the gauge and every
\* recorded count as they were, whatever happened to the writer map; a call
\* of writer w that returns Ok records the open-partition count of w and
\* moves the gauge by the whole difference to the count recorded before.
C19_ErrorsSkipTheGauge ==
    [][/\ last'.err # "none" => UNCHANGED <<current_metrics, partition_num>>
       /\ last'.err = "none" =>
            LET w == last'.w
                now == metrics(inner_writers'[w]).partition_num
            IN /\ current_metrics' = [current_metrics EXCEPT ![w] = now]
               /\ last'.delta = now - current_metrics[w]
               /\ partition_num' = U64(partition_num[4] + last'.delta)
    ]_vars

\* A successful write of one key that raised the gauge by two: the call
\* before it failed after it had added a key.
C19_Witness ==
    /\ last.op = "write" /\ last.err = "none"
    /\ Len(last.processed) = 1
    /\ last.delta = 2

\* A failed call that left the recorded count different from the
\* open-partition count.
C19_WitnessError ==
    /\ last.err # "none"
    /\ current_metrics[last.w] # PartitionNum(last.w)

====
